---- MODULE Spec2Model ----
(***************************************************************************)
(* Staged benchmark execution engine of noir-benchmark-cli:                *)
(*   PerformanceProfiler.timeStage   (the stage profiler)                  *)
(*   BenchmarkOrchestrator           (pipeline sequencing and aggregation) *)
(*   ProofService / CircuitService   (wrappers around the repositories)    *)
(*                                                                         *)
(* One executeBenchmark session is modelled.  Every await of the code is a *)
(* separate step; the synchronous code between two awaits is one action.   *)
(* Numbers that the code divides (JavaScript floating point division) are  *)
(* kept as exact fractions [n, d] with d > 0.                              *)
(***************************************************************************)
EXTENDS Integers, Sequences, FiniteSets, TLC

\* ------------------------------------------------------------------ bounds
\* largest config.runs explored (0, negative counts and NaN are explored too:
\* the loop body never runs)
MaxRuns == 2
\* a run's stub collaborators are slowed down by a factor 1..MaxSlow
MaxSlow == 2
\* a run's stub collaborators keep 1..MaxLoad units of heap alive
MaxLoad == 2
\* longest text of the --runs option explored
MaxText == 2
\* stage times of a result to serialise: 0..MaxTicks thousandths of a ms
MaxTicks == 4
\* longest circuit name explored
MaxName == 3

\* -------------------------------------------------------------- fractions
Rat(n, d) == [n |-> n, d |-> d]

RatInt(n) == Rat(n, 1)

RatAdd(a, b) ==
  IF a.d = b.d THEN Rat(a.n + b.n, a.d) ELSE Rat(a.n * b.d + b.n * a.d, a.d * b.d)

\* JavaScript a / k for a number k > 0
RatDivInt(a, k) == Rat(a.n, a.d * k)

RatEq(a, b) == a.n * b.d = b.n * a.d

RatLt(a, b) == a.n * b.d < b.n * a.d

RECURSIVE RatSum(_)
RatSum(s) ==
  IF s = <<>> THEN RatInt(0)
  ELSE RatAdd(RatSum(SubSeq(s, 1, Len(s) - 1)), s[Len(s)])

RECURSIVE RatMaxSeq(_)
RatMaxSeq(s) ==
  IF Len(s) = 1 THEN Head(s)
  ELSE LET m == RatMaxSeq(Tail(s)) IN IF RatLt(m, Head(s)) THEN Head(s) ELSE m

Map(f(_), s) == [j \in 1..Len(s) |-> f(s[j])]

\* --------------------------------------------------------------- pipeline
\* mutant: witness generation and proof generation swapped
StageNamesSwapped ==
  <<"circuit-load", "backend-init", "proof-generate", "witness-generate", "proof-verify">>

\* the stage names passed to timeStage, in the order executeSingleRun calls it
StageNames ==
  <<"circuit-load", "backend-init", "witness-generate", "proof-generate", "proof-verify">>

NumStages == Len(StageNames)

\* the collaborator operation each stage's asyncFn invokes
StageOps ==
  <<"loadCircuit", "initialize", "generateWitness", "generateProof", "verifyProof">>

\* the pause between two runs, in ms
SleepMs == 100

\* ----------------------------------------------------------------- errors
NoError == [name |-> "none", code |-> "none", stage |-> "none",
            elapsed |-> 0, message |-> "none", cause |-> "none"]

\* BenchmarkError subclasses: name, machine-readable code, wrapped cause
BenchmarkError(name, code, cause) ==
  [name |-> name, code |-> code, stage |-> "none",
   elapsed |-> 0, message |-> name, cause |-> cause]

\* a plain Error: no code, no cause
PlainError(message) ==
  [name |-> "Error", code |-> "none", stage |-> "none",
   elapsed |-> 0, message |-> message, cause |-> "none"]

\* the errors the services raise when the repository operation of stage k fails
ServiceErrors(k) ==
  CASE k = 1 -> {BenchmarkError("CircuitNotFoundError", "CIRCUIT_ERROR", "none"),
                 BenchmarkError("CircuitLoadError", "CIRCUIT_ERROR", "repository")}
    [] k = 2 -> {BenchmarkError("ProofGenerationError", "PROOF_SYSTEM_ERROR", "repository")}
    [] k = 3 -> {BenchmarkError("WitnessGenerationError", "PROOF_SYSTEM_ERROR", "repository")}
    [] k = 4 -> {BenchmarkError("ProofGenerationError", "PROOF_SYSTEM_ERROR", "repository")}
    [] OTHER -> {BenchmarkError("ProofVerificationError", "PROOF_SYSTEM_ERROR", "repository")}

\* CircuitService.getTestInputs wraps every failure in a CircuitLoadError
InputsError == BenchmarkError("CircuitLoadError", "CIRCUIT_ERROR", "repository")

\* mutant: the catch rethrows the operation's error as it is
StageFailureBare(stageName, elapsedMs, error) == error

\* timeStage's catch: new Error(`Stage ${stageName} failed after ${ms}ms: ${message}`)
StageFailure(stageName, elapsedMs, error) ==
  [name |-> "Error", code |-> "none", stage |-> stageName,
   elapsed |-> elapsedMs, message |-> error.message, cause |-> "none"]

\* executeSingleRun: throw new Error('Proof verification failed')
VerificationFailure == PlainError("Proof verification failed")

\* aggregateResults on an empty list reads firstResult.stages of undefined
AggregateTypeError == PlainError("TypeError")


\* ------------------------------------------------------------ environment
\* The collaborators are stubs.  A run's stub is described by
\*   slow: stage k takes k * slow ms,
\*   load: heap units alive after a stage; after stage HotStage the heap holds
\*         twice as many, so runs differ in the height and the place of their peak.
Envs == [slow : 1..MaxSlow, load : 1..MaxLoad]

NoEnv == [slow |-> 0, load |-> 0]

\* time the collaborator operation of stage k takes
Elapsed(e, k) == k * e.slow

HotStage(e) == NumStages - ((e.load - 1) % NumStages)

Max(a, b) == IF a < b THEN b ELSE a

\* process.memoryUsage() once the operation of stage k has completed
MemAfter(m, e, k) ==
  LET used  == IF k = HotStage(e) THEN 2 * e.load ELSE e.load
      total == Max(m.heapTotal, used)
  IN  [heapUsed |-> used, heapTotal |-> total,
       external |-> m.external, rss |-> total + m.external]

InitMem == [heapUsed |-> 1, heapTotal |-> 1, external |-> 1, rss |-> 2]

\* sizes of the witness and of the proof the stub of a run produces
WitnessSize(e) == e.load

ProofSize(e) == e.slow

\* ------------------------------------------------------ PerformanceProfiler
\* mutant: a stage's time is read off the clock, not measured from the stage's start
StageResultSinceOrigin(stageName, startTime, endTime, memoryBefore, memoryAfter) ==
  [stage        |-> stageName,
   timeMs       |-> RatInt(endTime),
   memoryBefore |-> memoryBefore,
   memoryAfter  |-> memoryAfter,
   memoryDelta  |-> [heapUsed  |-> memoryAfter.heapUsed - memoryBefore.heapUsed,
                     heapTotal |-> memoryAfter.heapTotal - memoryBefore.heapTotal,
                     external  |-> memoryAfter.external - memoryBefore.external,
                     rss       |-> memoryAfter.rss - memoryBefore.rss]]

\* mutant: the second snapshots are taken before the operation is awaited
StageResultEarlySnapshot(stageName, startTime, endTime, memoryBefore, memoryAfter) ==
  [stage        |-> stageName,
   timeMs       |-> RatInt(startTime - startTime),
   memoryBefore |-> memoryBefore,
   memoryAfter  |-> memoryBefore,
   memoryDelta  |-> [heapUsed  |-> 0, heapTotal |-> 0, external  |-> 0, rss |-> 0]]

\* timeStage, success branch: the StageResult it resolves to
StageResult(stageName, startTime, endTime, memoryBefore, memoryAfter) ==
  [stage        |-> stageName,
   timeMs       |-> RatInt(endTime - startTime),
   memoryBefore |-> memoryBefore,
   memoryAfter  |-> memoryAfter,
   memoryDelta  |-> [heapUsed  |-> memoryAfter.heapUsed - memoryBefore.heapUsed,
                     heapTotal |-> memoryAfter.heapTotal - memoryBefore.heapTotal,
                     external  |-> memoryAfter.external - memoryBefore.external,
                     rss       |-> memoryAfter.rss - memoryBefore.rss]]

\* startObserving: a no-op while observing, else attaches an observer
StartObserving(p) ==
  IF p.isObserving THEN p ELSE [observer |-> TRUE, isObserving |-> TRUE]

\* mutant: stopObserving disconnects the observer and leaves the flag set
StopObservingKeepsFlag(p) ==
  IF p.observer THEN [observer |-> FALSE, isObserving |-> p.isObserving] ELSE p

\* stopObserving: disconnects only when an observer is attached
StopObserving(p) ==
  IF p.observer THEN [observer |-> FALSE, isObserving |-> FALSE] ELSE p

\* ------------------------------------------------------------ Result model
\* BenchmarkStage constructor; it throws when timeMs < 0
BenchmarkStage(name, timeMs, memoryUsage, success) ==
  [name |-> name, timeMs |-> timeMs, memoryUsage |-> memoryUsage, success |-> success]

BenchmarkStageThrows(timeMs) == RatLt(timeMs, RatInt(0))

\* BenchmarkResult constructor; it throws when stages is empty
BenchmarkResult(stages, totals, metadata) ==
  [stages |-> stages, totals |-> totals, metadata |-> metadata]

BenchmarkResultThrows(stages) == Len(stages) = 0

NoResult == BenchmarkResult(<<>>,
              [timeMs |-> RatInt(0), memoryPeak |-> RatInt(0), proofSize |-> 0, witnessSize |-> 0],
              [runs |-> 0])

\* BenchmarkStage.toJSON rounds to 1/RoundScale
RoundScale == 100

\* Math.round(x): the nearest integer, halves upwards (x >= 0 here)
MathRound(x) == (2 * x.n + x.d) \div (2 * x.d)

\* Math.round(timeMs * 100) / 100
Round2(x) == Rat(MathRound(Rat(x.n * RoundScale, x.d)), RoundScale)

\* BenchmarkStage.toJSON
StageToJSON(st) ==
  [stage        |-> st.name,
   timeMs       |-> Round2(st.timeMs),
   memoryBefore |-> st.memoryUsage.before,
   memoryAfter  |-> st.memoryUsage.after,
   memoryDelta  |-> st.memoryUsage.delta,
   success      |-> st.success]

\* BenchmarkResult.toJSON: the stages serialised one by one, totals and metadata as they are
toJSON(r) ==
  [stages   |-> [k \in 1..Len(r.stages) |-> StageToJSON(r.stages[k])],
   totals   |-> r.totals,
   metadata |-> r.metadata]

\* ProofResult constructor: it throws on an empty proof or a negative time
ProofResultThrows(proofLength, generationTimeMs) ==
  proofLength = 0 \/ generationTimeMs < 0

ProofResult(proofLength, generationTimeMs, verified) ==
  [proofSize |-> proofLength, generationTimeMs |-> generationTimeMs,
   verified |-> verified, isValid |-> verified /\ proofLength > 0, error |-> "none"]

\* FailedProofResult constructor: super(new Uint8Array(0), new Uint8Array(0),
\* generationTimeMs, false, 0)
FailedProofResultThrows(generationTimeMs) == ProofResultThrows(0, generationTimeMs)

\* ProofResult.failed(error, generationTimeMs), when the constructor returns
FailedProofResult(message, generationTimeMs) ==
  [ProofResult(0, generationTimeMs, FALSE) EXCEPT !.isValid = FALSE, !.error = message]

\* ------------------------------------------------------------ Orchestrator
convertToStage(sr) ==
  BenchmarkStage(sr.stage, sr.timeMs,
                 [before |-> sr.memoryBefore, after |-> sr.memoryAfter, delta |-> sr.memoryDelta],
                 TRUE)

StageTime(st) == st.timeMs

\* mutant: the peak is taken over the snapshots before the stages
StageHeapBefore(st) == RatInt(st.memoryUsage.before.heapUsed)

StageHeapAfter(st) == RatInt(st.memoryUsage.after.heapUsed)

\* mutant: the verification outcome is recorded, never thrown
VerifyThrowsNever(verified) == FALSE

\* executeSingleRun: if (!verifyResult.result) throw ...
VerifyThrows(verified) == ~verified

\* mutant: the pause follows every run, the last one included
SleepsAfterEveryRun(index, runs) == TRUE

\* executeBenchmark: if (i < config.runs - 1) await this.sleep(100)
SleepsAfterRun(index, runs) == index < runs - 1

\* executeSingleRun, "Calculate totals": the BenchmarkTotals of one run
SingleRunTotals(stages, witnessSize, proofSize) ==
  [timeMs      |-> RatSum(Map(StageTime, stages)),
   memoryPeak  |-> RatMaxSeq(Map(StageHeapAfter, stages)),
   proofSize   |-> proofSize,
   witnessSize |-> witnessSize]

\* executeSingleRun, the BenchmarkResult it returns (metadata.runs is 1)
SingleRunResult(stages, witnessSize, proofSize) ==
  BenchmarkResult(stages, SingleRunTotals(stages, witnessSize, proofSize), [runs |-> 1])

TotalTime(r) == r.totals.timeMs

TotalPeak(r) == r.totals.memoryPeak

\* mutant: the aggregate keeps the first run's stage time
AvgStageTimeFirst(results, index) == results[1].stages[index].timeMs

\* aggregateResults: the average of stage index over the runs
AvgStageTime(results, index) ==
  LET at(r) == r.stages[index].timeMs
  IN  RatDivInt(RatSum(Map(at, results)), Len(results))

\* mutant: the sum of the runs' totals is not divided
AvgTotalTimeSum(results) == RatSum(Map(TotalTime, results))

AvgTotalTime(results) == RatDivInt(RatSum(Map(TotalTime, results)), Len(results))

\* mutant: the highest peak of the runs instead of their mean
AvgMemoryPeakMax(results) == RatMaxSeq(Map(TotalPeak, results))

AvgMemoryPeak(results) == RatDivInt(RatSum(Map(TotalPeak, results)), Len(results))

\* aggregateResults: does it throw?  (firstResult undefined, or a constructor)
AggregateThrows(results) ==
  IF Len(results) = 1 THEN FALSE
  ELSE IF Len(results) = 0 THEN TRUE
  ELSE \/ \E index \in 1..Len(results[1].stages) :
             BenchmarkStageThrows(AvgStageTime(results, index))
       \/ BenchmarkResultThrows(results[1].stages)

\* mutant: the sizes are taken from the last run
AggregateSizesLast(results) ==
  [proofSize   |-> results[Len(results)].totals.proofSize,
   witnessSize |-> results[Len(results)].totals.witnessSize]

\* aggregateResults: proofSize and witnessSize of avgTotals
AggregateSizes(results) ==
  [proofSize   |-> results[1].totals.proofSize,
   witnessSize |-> results[1].totals.witnessSize]

\* mutant: the first run's metadata is spread and runs is not overridden
AggregateMetadataFirst(results) == results[1].metadata

\* aggregateResults: { ...firstResult.metadata, runs: results.length }
AggregateMetadata(results) == [results[1].metadata EXCEPT !.runs = Len(results)]

\* aggregateResults: the BenchmarkResult it returns
aggregateResults(results) ==
  IF Len(results) = 1 THEN results[1]
  ELSE LET firstResult == results[1]
           avgStages == [index \in 1..Len(firstResult.stages) |->
                           BenchmarkStage(firstResult.stages[index].name,
                                          AvgStageTime(results, index),
                                          firstResult.stages[index].memoryUsage,
                                          firstResult.stages[index].success)]
           avgTotals == [timeMs      |-> AvgTotalTime(results),
                         memoryPeak  |-> AvgMemoryPeak(results),
                         proofSize   |-> AggregateSizes(results).proofSize,
                         witnessSize |-> AggregateSizes(results).witnessSize]
       IN  BenchmarkResult(avgStages, avgTotals, AggregateMetadata(results))

\* ------------------------------------------------------------ ProofService
\* mutant: cleanup without its try/catch
CleanupEscapesOnFailure(releaseFailed) == releaseFailed

\* ProofService.cleanup: does a failure of the repository's cleanup escape it?
CleanupEscapes(releaseFailed) == FALSE

CleanupError == PlainError("cleanup failed")


\* ------------------------------------------------------------------ state
\* --------------------------------------------------------- BenchmarkCommand
\* the characters a --runs text is made of: a sign, digits, anything else
DigitChars == {"0", "1", "2", "3", "4", "5", "6", "7", "8", "9"}

Chars == DigitChars \cup {"-", "x"}

Texts == UNION {[1..n -> Chars] : n \in 0..MaxText}

DigitValue(c) ==
  CASE c = "0" -> 0 [] c = "1" -> 1 [] c = "2" -> 2 [] c = "3" -> 3 [] c = "4" -> 4
    [] c = "5" -> 5 [] c = "6" -> 6 [] c = "7" -> 7 [] c = "8" -> 8 [] c = "9" -> 9

\* NaN, coded as an integer below every integer a text can spell.  The code
\* compares config.runs only as i < runs and i < runs - 1, and both are false
\* for NaN as they are for this integer.
NaN == -(10 ^ MaxText)

RECURSIVE ScanDigits(_, _, _)
ScanDigits(text, j, acc) ==
  IF j > Len(text) \/ text[j] \notin DigitChars
    THEN acc
    ELSE ScanDigits(text, j + 1, 10 * acc + DigitValue(text[j]))

\* parseInt(text): an optional sign, then the longest run of digits; NaN if none
ParseInt(text) ==
  LET negative == Len(text) > 0 /\ text[1] = "-"
      first    == IF negative THEN 2 ELSE 1
  IN  IF first > Len(text) \/ text[first] \notin DigitChars THEN NaN
      ELSE IF negative THEN 0 - ScanDigits(text, first, 0)
      ELSE ScanDigits(text, first, 0)

\* parseConfiguration: runs: parseInt(options.runs || '1'), verbose: options.verbose || false
parseConfiguration(options) ==
  [runs    |-> ParseInt(IF options.runs = <<>> THEN <<"1">> ELSE options.runs),
   verbose |-> options.verbose]

\* the command lines explored: those that ask for at most MaxRuns runs
Options ==
  {o \in [runs : Texts, verbose : BOOLEAN] : parseConfiguration(o).runs <= MaxRuns}

\* ------------------------------------------ UltraHonkProofSystemRepository
NoRepository == [noir |-> FALSE, backend |-> FALSE]

\* mutant: initialize creates the backend and leaves noir as it was
InitializeBackendOnly(r) == [noir |-> r.noir, backend |-> TRUE]

\* initialize: a new Noir instance and a new backend replace whatever was there
Initialize(r) == [noir |-> TRUE, backend |-> TRUE]

\* cleanup: the backend is destroyed (its errors ignored), both fields are nulled
Cleanup(r) == [noir |-> FALSE, backend |-> FALSE]

\* the check the operation of stage k starts with: generateWitness needs noir,
\* generateProof and verifyProof need the backend
Ready(r, k) == (k = 3 => r.noir) /\ (k \in {4, 5} => r.backend)

\* what a session leaves for comparison: how it settled, what it returned, its stubs
NoSession == [outcome |-> "none", finalResult |-> NoResult, env |-> NoEnv]

\* ------------------------------------------------------------------ Logger
LogLevels == <<"debug", "info", "warn", "error", "success", "benchmark", "progress", "visual">>

IndexOf(level) == CHOOSE j \in 1..Len(LogLevels) : LogLevels[j] = level

\* new Logger(): no options, so verbose and silent are false and minLevel is 'info'
NewLogger == [verbose |-> FALSE, silent |-> FALSE, minLevel |-> "info", console |-> <<>>]

setVerbose(l, verbose) == [l EXCEPT !.verbose = verbose]

shouldLog(l, level) ==
  IF l.silent THEN FALSE
  ELSE IF level = "debug" /\ ~l.verbose THEN FALSE
  ELSE IndexOf(level) >= IndexOf(l.minLevel)

\* debug, error, success, ...: print when shouldLog says so
Log(l, level) ==
  IF shouldLog(l, level) THEN [l EXCEPT !.console = Append(@, level)] ELSE l

\* --------------------------------------------------------- BenchmarkCommand
NoDocument == [stages |-> <<>>, totals |-> NoResult.totals, metadata |-> NoResult.metadata]

NoCommand == [state |-> "idle", exitCode |-> 0, written |-> NoDocument,
              saved |-> FALSE, summary |-> FALSE]

\* writeFileSync failing: a plain Error of the file system
WriteError == PlainError("EACCES")

\* handleError: the message at level error, then at level debug the cause (of
\* a BenchmarkError that has one) or the stack, both only when verbose
handleError(l, e, verbose) ==
  LET shown == Log(l, "error")
  IN  IF e.code # "none"
        THEN IF verbose /\ e.cause # "none" THEN Log(Log(shown, "debug"), "debug") ELSE shown
        ELSE IF verbose THEN Log(shown, "debug") ELSE shown

\* ---------------------------------------------- FileSystemCircuitRepository
NoCircuits == [name |-> <<>>, files |-> {}, content |-> "none"]

\* circuit names: letters and hyphens
Names == UNION {[1..n -> {"a", "-"}] : n \in 1..MaxName}

\* String.prototype.replace with a string pattern: the first occurrence only
RECURSIVE ReplaceFirst(_, _, _)
ReplaceFirst(text, from, to) ==
  IF text = <<>> THEN <<>>
  ELSE IF Head(text) = from THEN <<to>> \o Tail(text)
  ELSE <<Head(text)>> \o ReplaceFirst(Tail(text), from, to)

\* the compiled circuit of a name written with underscores throughout
Underscored(name) == [j \in 1..Len(name) |-> IF name[j] = "-" THEN "_" ELSE name[j]]

\* target/<name.replace('-', '_')>.json, the file exists and load look for
JsonPath(name) == ReplaceFirst(name, "-", "_")

\* what the file can hold: a compiled circuit, text that is no JSON, JSON
\* without bytecode or abi; or it cannot be read
Contents == {"circuit", "unreadable", "badjson", "incomplete"}

\* the directories explored: the circuit asked for, and which file is there
CircuitDirs ==
  {[name |-> n, files |-> f, content |-> c] :
     n \in Names, f \in {{}} \cup {{JsonPath(m), Underscored(m)} : m \in Names}, c \in Contents}

CircuitNotFoundError == BenchmarkError("CircuitNotFoundError", "CIRCUIT_ERROR", "none")

CircuitLoadError(cause) == BenchmarkError("CircuitLoadError", "CIRCUIT_ERROR", cause.name)

\* FileSystemCircuitRepository.exists
RepositoryExists(c) == JsonPath(c.name) \in c.files

\* FileSystemCircuitRepository.load: the error it throws, NoError when it returns
RepositoryLoad(c) ==
  IF JsonPath(c.name) \notin c.files THEN CircuitNotFoundError
  ELSE CASE c.content = "unreadable" -> CircuitLoadError(PlainError("EACCES"))
         [] c.content = "badjson"    -> CircuitLoadError([PlainError("Unexpected token") EXCEPT
                                                           !.name = "SyntaxError"])
         [] c.content = "incomplete" -> CircuitLoadError(CircuitLoadError(PlainError("Invalid circuit JSON")))
         [] OTHER                    -> NoError

\* ---------------------------------------------------------- CircuitService
NoLoading == [status |-> "none", error |-> NoError, loadCalled |-> FALSE]

\* mutant: the catch wraps whatever it caught
ServiceCatchWrapsAll(e) == CircuitLoadError(e)

\* loadCircuit's catch: a CircuitNotFoundError is rethrown, anything else wrapped
ServiceCatch(e) ==
  IF e.name = "CircuitNotFoundError" THEN e ELSE CircuitLoadError(e)

VARIABLES
  config,      \* BenchmarkConfiguration: runs, verbose
  pc,          \* where executeBenchmark is suspended
  i,           \* the loop counter of executeBenchmark
  env,         \* the stub behaviour of the run in progress
  now,         \* performance.now()
  mem,         \* process.memoryUsage()
  frame,       \* the timeStage call in progress: stage index, startTime, memoryBefore
  stages,      \* executeSingleRun's stages
  sizes,       \* witness.size and proof.proofSize of the run in progress
  allResults,  \* executeBenchmark's allResults
  profiler,    \* PerformanceProfiler: observer, isObserving
  completion,  \* how the try/catch of executeBenchmark completed
  finalResult, \* the value the try block returns
  error,       \* the error thrown inside the try block
  outcome,     \* how the promise of executeBenchmark settled
  trace,       \* collaborator calls, returns and pauses, in order
  repository,  \* UltraHonkProofSystemRepository: whether noir and backend are set
  session,     \* which call of executeBenchmark this is, and how the one before ended
  command,     \* BenchmarkCommand: how far the action went, what it wrote, the exit code
  logger,      \* Logger: verbose, silent, minLevel, and the levels printed so far
  circuits,    \* the circuits directory and the circuit asked for
  loading      \* how CircuitService.loadCircuit settled

vars == <<config, pc, i, env, now, mem, frame, stages, sizes, allResults,
          profiler, completion, finalResult, error, outcome, trace,
          repository, session, command, logger, circuits, loading>>

NoFrame == [k |-> 0, startTime |-> 0, memoryBefore |-> InitMem]

NoSizes == [witness |-> 0, proof |-> 0]

Ev(ev, op, run) == [ev |-> ev, op |-> op, run |-> run]

\* timeStage up to its await: snapshot memory and time, then invoke the operation
EnterStage(k, t, m) == [k |-> k, startTime |-> t, memoryBefore |-> m]

Init ==
  /\ config \in {parseConfiguration(o) : o \in Options}
  /\ pc = "start"
  /\ i = 0
  /\ env = NoEnv
  /\ now = 0
  /\ mem = InitMem
  /\ frame = NoFrame
  /\ stages = <<>>
  /\ sizes = NoSizes
  /\ allResults = <<>>
  /\ profiler = [observer |-> FALSE, isObserving |-> FALSE]
  /\ completion = "none"
  /\ finalResult = NoResult
  /\ error = NoError
  /\ outcome = "none"
  /\ trace = <<>>
  /\ repository = NoRepository
  /\ session = [n |-> 1, previous |-> NoSession]
  /\ command = NoCommand
  /\ logger = NewLogger
  /\ circuits = NoCircuits
  /\ loading = NoLoading

\* executeBenchmark, entry of the try block
ExecuteBenchmark ==
  /\ pc = "start"
  /\ profiler' = IF config.verbose THEN StartObserving(profiler) ELSE profiler
  /\ i' = 0
  /\ allResults' = <<>>
  /\ completion' = "none"
  /\ finalResult' = NoResult
  /\ error' = NoError
  /\ outcome' = "none"
  /\ pc' = "loop"
  /\ UNCHANGED <<config, env, now, mem, frame, stages, sizes, trace>>
  /\ UNCHANGED <<session, repository>>
  /\ UNCHANGED <<command, logger, circuits, loading>>

\* mutant: the next run is started while verifyProof of the run is still pending
RunStartEarly ==
  /\ \/ pc = "loop" /\ i < config.runs /\ i' = i
     \/ pc = "await" /\ frame.k = NumStages /\ i + 1 < config.runs /\ i' = i + 1
  /\ \E e \in Envs : env' = e
  /\ stages' = <<>>
  /\ sizes' = NoSizes
  /\ frame' = EnterStage(1, now, mem)
  /\ trace' = Append(trace, Ev("call", StageOps[1], i'))
  /\ pc' = "await"
  /\ UNCHANGED <<config, now, mem, allResults, profiler,
                 completion, finalResult, error, outcome>>
  /\ UNCHANGED <<session, repository>>
  /\ UNCHANGED <<command, logger, circuits, loading>>

\* loop test true: executeSingleRun starts and reaches the await of stage 1
RunStart ==
  /\ pc = "loop"
  /\ i < config.runs
  /\ \E e \in Envs : env' = e
  /\ stages' = <<>>
  /\ sizes' = NoSizes
  /\ frame' = EnterStage(1, now, mem)
  /\ trace' = Append(trace, Ev("call", StageOps[1], i))
  /\ pc' = "await"
  /\ UNCHANGED <<config, i, now, mem, allResults, profiler,
                 completion, finalResult, error, outcome>>
  /\ UNCHANGED <<session, repository>>
  /\ UNCHANGED <<command, logger, circuits, loading>>

\* the operation of stage 1..4 resolves: the stage is recorded, the next call made.
\* generateProof also resolves when the backend failed and the repository could
\* build the FailedProofResult it returns then (a proof of size 0).
StageResolve ==
  /\ pc = "await"
  /\ frame.k < NumStages
  /\ Ready(repository, frame.k)
  /\ LET k   == frame.k
         end == now + Elapsed(env, k)
         m   == MemAfter(mem, env, k)
         sr  == StageResult(StageNames[k], frame.startTime, end, frame.memoryBefore, m)
     IN  /\ now' = end
         /\ mem' = m
         /\ stages' = Append(stages, convertToStage(sr))
         /\ \E backendFailed \in BOOLEAN :
              /\ backendFailed => (k = 4 /\ ~FailedProofResultThrows(Elapsed(env, k)))
              /\ sizes' =
                   [witness |-> IF k = 3 THEN WitnessSize(env) ELSE sizes.witness,
                    proof   |-> IF k # 4 THEN sizes.proof
                                ELSE IF backendFailed
                                  THEN FailedProofResult("failed", Elapsed(env, k)).proofSize
                                  ELSE ProofResult(ProofSize(env), Elapsed(env, k), FALSE).proofSize]
         /\ IF k = 1
              THEN /\ pc' = "inputs"
                   /\ frame' = NoFrame
                   /\ trace' = trace \o <<Ev("return", StageOps[k], i),
                                          Ev("call", "getTestInputs", i)>>
              ELSE /\ pc' = "await"
                   /\ frame' = EnterStage(k + 1, end, m)
                   /\ trace' = trace \o <<Ev("return", StageOps[k], i),
                                          Ev("call", StageOps[k + 1], i)>>
  /\ UNCHANGED <<config, i, env, allResults, profiler,
                 completion, finalResult, error, outcome>>
  /\ repository' = IF frame.k = 2 THEN Initialize(repository) ELSE repository
  /\ UNCHANGED session
  /\ UNCHANGED <<command, logger, circuits, loading>>

\* mutant: a failed run is dropped and the loop goes on with the next run
StageRejectSkipsRun ==
  /\ pc = "await"
  /\ LET k   == frame.k
         end == now + Elapsed(env, k)
     IN  /\ now' = end
         /\ \E e \in ServiceErrors(k) :
              error' = StageFailure(StageNames[k], end - frame.startTime, e)
         /\ trace' = Append(trace, Ev("throw", StageOps[k], i))
  /\ frame' = NoFrame
  /\ i' = i + 1
  /\ pc' = "loop"
  /\ UNCHANGED <<config, env, mem, stages, sizes, allResults, profiler,
                 completion, finalResult, outcome>>
  /\ UNCHANGED <<session, repository>>
  /\ UNCHANGED <<command, logger, circuits, loading>>

\* the operation of a stage rejects: timeStage rethrows, executeSingleRun aborts.
\* generateProof rejects when the backend failed and ProofResult.failed, called
\* in the repository's catch with the time the backend took, throws itself.
StageReject ==
  /\ pc = "await"
  /\ frame.k = 4 =>
       ~Ready(repository, frame.k) \/ FailedProofResultThrows(Elapsed(env, frame.k))
  /\ LET k   == frame.k
         end == now + Elapsed(env, k)
     IN  /\ now' = end
         /\ \E e \in ServiceErrors(k) :
              error' = StageFailure(StageNames[k], end - frame.startTime, e)
         /\ trace' = Append(trace, Ev("throw", StageOps[k], i))
  /\ frame' = NoFrame
  /\ pc' = "catch"
  /\ UNCHANGED <<config, i, env, mem, stages, sizes, allResults, profiler,
                 completion, finalResult, outcome>>
  /\ UNCHANGED <<session, repository>>
  /\ UNCHANGED <<command, logger, circuits, loading>>

\* getTestInputs resolves: timeStage of stage 2 reaches its await
InputsResolve ==
  /\ pc = "inputs"
  /\ frame' = EnterStage(2, now, mem)
  /\ trace' = trace \o <<Ev("return", "getTestInputs", i), Ev("call", StageOps[2], i)>>
  /\ pc' = "await"
  /\ UNCHANGED <<config, i, env, now, mem, stages, sizes, allResults, profiler,
                 completion, finalResult, error, outcome>>
  /\ UNCHANGED <<session, repository>>
  /\ UNCHANGED <<command, logger, circuits, loading>>

\* getTestInputs rejects: outside every timeStage
InputsReject ==
  /\ pc = "inputs"
  /\ error' = InputsError
  /\ trace' = Append(trace, Ev("throw", "getTestInputs", i))
  /\ pc' = "catch"
  /\ UNCHANGED <<config, i, env, now, mem, frame, stages, sizes, allResults, profiler,
                 completion, finalResult, outcome>>
  /\ UNCHANGED <<session, repository>>
  /\ UNCHANGED <<command, logger, circuits, loading>>

\* verifyProof resolves to verified: the run ends, by a result or by the throw
VerifyResolve ==
  /\ pc = "await"
  /\ frame.k = NumStages
  /\ Ready(repository, frame.k)
  /\ \E verified \in BOOLEAN :
       \* verifyProof returns false for a FailedProofResult
       /\ sizes.proof = 0 => ~verified
       /\ LET k == frame.k
              end == now + Elapsed(env, k)
              m   == MemAfter(mem, env, k)
              sr  == StageResult(StageNames[k], frame.startTime, end, frame.memoryBefore, m)
              all == Append(stages, convertToStage(sr))
          IN  /\ now' = end
              /\ mem' = m
              /\ stages' = all
              /\ trace' = Append(trace, Ev(IF verified THEN "return" ELSE "false", StageOps[k], i))
              /\ IF VerifyThrows(verified)
                   THEN /\ error' = VerificationFailure
                        /\ pc' = "catch"
                        /\ UNCHANGED <<allResults, i>>
                   ELSE /\ allResults' =
                             Append(allResults, SingleRunResult(all, sizes.witness, sizes.proof))
                        /\ error' = error
                        /\ IF SleepsAfterRun(i, config.runs)
                             THEN pc' = "sleep" /\ i' = i
                             ELSE pc' = "loop" /\ i' = i + 1
  /\ frame' = NoFrame
  /\ UNCHANGED <<config, env, sizes, profiler, completion, finalResult, outcome>>
  /\ UNCHANGED <<session, repository>>
  /\ UNCHANGED <<command, logger, circuits, loading>>

\* mutant: the backend is released in the pause between two runs
SleepReleases ==
  /\ pc = "sleep"
  /\ now' = now + SleepMs
  /\ trace' = trace \o <<Ev("call", "cleanup", i), Ev("return", "cleanup", i),
                         Ev("sleep", "sleep", i)>>
  /\ repository' = Cleanup(repository)
  /\ i' = i + 1
  /\ pc' = "loop"
  /\ UNCHANGED <<config, env, mem, frame, stages, sizes, allResults, profiler,
                 completion, finalResult, error, outcome, session>>
  /\ UNCHANGED <<command, logger, circuits, loading>>

\* the pause between two runs ends
Sleep ==
  /\ pc = "sleep"
  /\ now' = now + SleepMs
  /\ trace' = Append(trace, Ev("sleep", "sleep", i))
  /\ i' = i + 1
  /\ pc' = "loop"
  /\ UNCHANGED <<config, env, mem, frame, stages, sizes, allResults, profiler,
                 completion, finalResult, error, outcome>>
  /\ UNCHANGED <<session, repository>>
  /\ UNCHANGED <<command, logger, circuits, loading>>

\* mutant: aggregateResults of no results returns an empty aggregate
AggregateReturnsEmpty ==
  /\ pc = "loop"
  /\ ~(i < config.runs)
  /\ IF Len(allResults) > 0 /\ AggregateThrows(allResults)
       THEN /\ error' = AggregateTypeError
            /\ pc' = "catch"
            /\ UNCHANGED <<finalResult, completion>>
       ELSE /\ finalResult' = IF Len(allResults) = 0 THEN NoResult
                                                      ELSE aggregateResults(allResults)
            /\ completion' = "return"
            /\ pc' = "finally"
            /\ error' = error
  /\ UNCHANGED <<config, i, env, now, mem, frame, stages, sizes, allResults,
                 profiler, outcome, trace>>
  /\ UNCHANGED <<session, repository>>
  /\ UNCHANGED <<command, logger, circuits, loading>>

\* loop test false: aggregateResults, then the return of the try block
Aggregate ==
  /\ pc = "loop"
  /\ ~(i < config.runs)
  /\ IF AggregateThrows(allResults)
       THEN /\ error' = AggregateTypeError
            /\ pc' = "catch"
            /\ UNCHANGED <<finalResult, completion>>
       ELSE /\ finalResult' = aggregateResults(allResults)
            /\ completion' = "return"
            /\ pc' = "finally"
            /\ error' = error
  /\ UNCHANGED <<config, i, env, now, mem, frame, stages, sizes, allResults,
                 profiler, outcome, trace>>
  /\ UNCHANGED <<session, repository>>
  /\ UNCHANGED <<command, logger, circuits, loading>>

\* mutant: the catch block rethrows and no finally block follows
CatchSkipsFinally ==
  /\ pc = "catch"
  /\ completion' = "throw"
  /\ outcome' = "rejected"
  /\ pc' = "done"
  /\ UNCHANGED <<config, i, env, now, mem, frame, stages, sizes, allResults,
                 profiler, finalResult, error, trace>>
  /\ UNCHANGED <<session, repository>>
  /\ UNCHANGED <<command, logger, circuits, loading>>

\* mutant: in verbose mode the catch block reports the error and does not rethrow
CatchVerboseSwallows ==
  /\ pc = "catch"
  /\ completion' = IF config.verbose THEN "return" ELSE "throw"
  /\ pc' = "finally"
  /\ UNCHANGED <<config, i, env, now, mem, frame, stages, sizes, allResults,
                 profiler, finalResult, error, outcome, trace>>
  /\ UNCHANGED <<session, repository>>
  /\ UNCHANGED <<command, logger, circuits, loading>>

\* the catch block: log and rethrow
Catch ==
  /\ pc = "catch"
  /\ completion' = "throw"
  /\ pc' = "finally"
  /\ UNCHANGED <<config, i, env, now, mem, frame, stages, sizes, allResults,
                 profiler, finalResult, error, outcome, trace>>
  /\ UNCHANGED <<session, repository>>
  /\ UNCHANGED <<command, logger, circuits, loading>>

\* the finally block up to its await: stopObserving, then ProofService.cleanup
\* calls the repository's cleanup
Finally ==
  /\ pc = "finally"
  /\ profiler' = StopObserving(profiler)
  /\ trace' = Append(trace, Ev("call", "cleanup", i))
  /\ pc' = "cleanup"
  /\ UNCHANGED <<config, i, env, now, mem, frame, stages, sizes, allResults,
                 completion, finalResult, error, outcome>>
  /\ UNCHANGED <<session, repository>>
  /\ UNCHANGED <<command, logger, circuits, loading>>

\* the repository's cleanup settles, and with it executeBenchmark
CleanupSettle ==
  /\ pc = "cleanup"
  /\ \E releaseFailed \in BOOLEAN :
       /\ trace' = Append(trace, Ev(IF releaseFailed THEN "throw" ELSE "return", "cleanup", i))
       /\ IF CleanupEscapes(releaseFailed)
            THEN /\ outcome' = "rejected"
                 /\ error' = CleanupError
                 /\ finalResult' = NoResult
            ELSE /\ outcome' = IF completion = "return" THEN "returned" ELSE "rejected"
                 /\ UNCHANGED <<error, finalResult>>
  /\ pc' = "done"
  /\ UNCHANGED <<config, i, env, now, mem, frame, stages, sizes, allResults,
                 profiler, completion>>
  /\ repository' = Cleanup(repository)
  /\ UNCHANGED session
  /\ UNCHANGED <<command, logger, circuits, loading>>

Next ==
  \/ ExecuteBenchmark
  \/ RunStart
  \/ StageResolve
  \/ StageReject
  \/ InputsResolve
  \/ InputsReject
  \/ VerifyResolve
  \/ Sleep
  \/ Aggregate
  \/ Catch
  \/ Finally
  \/ CleanupSettle

Spec == Init /\ [][Next]_vars


\* ------------------------------------------------- a logger whose calls throw
\* The orchestrator calls its injected Logger outside every try block of its
\* own: a call that throws is an exception at that point of executeBenchmark.
LoggerError == PlainError("logger failed")

\* logger.info / logger.status('running', 'Loading circuit...') throws
LoggerThrowsAtRunStart ==
  /\ pc = "loop"
  /\ i < config.runs
  /\ error' = LoggerError
  /\ trace' = Append(trace, Ev("throw", "logger", i))
  /\ pc' = "catch"
  /\ UNCHANGED <<config, i, env, now, mem, frame, stages, sizes, allResults, profiler,
                 completion, finalResult, outcome>>
  /\ UNCHANGED <<session, repository>>
  /\ UNCHANGED <<command, logger, circuits, loading>>

\* the operation of a stage resolves, the stage is pushed, and then
\* logger.stageProgress / logger.benchmark throws
LoggerThrowsAfterStage ==
  /\ pc = "await"
  /\ LET k   == frame.k
         end == now + Elapsed(env, k)
         m   == MemAfter(mem, env, k)
         sr  == StageResult(StageNames[k], frame.startTime, end, frame.memoryBefore, m)
     IN  /\ now' = end
         /\ mem' = m
         /\ stages' = Append(stages, convertToStage(sr))
         /\ trace' = trace \o <<Ev("return", StageOps[k], i), Ev("throw", "logger", i)>>
  /\ error' = LoggerError
  /\ frame' = NoFrame
  /\ pc' = "catch"
  /\ UNCHANGED <<config, i, env, sizes, allResults, profiler,
                 completion, finalResult, outcome>>
  /\ UNCHANGED <<session, repository>>
  /\ UNCHANGED <<command, logger, circuits, loading>>

\* getTestInputs resolves and logger.status('running', 'Initializing backend...') throws
LoggerThrowsAfterInputs ==
  /\ pc = "inputs"
  /\ error' = LoggerError
  /\ trace' = trace \o <<Ev("return", "getTestInputs", i), Ev("throw", "logger", i)>>
  /\ pc' = "catch"
  /\ UNCHANGED <<config, i, env, now, mem, frame, stages, sizes, allResults, profiler,
                 completion, finalResult, outcome>>
  /\ UNCHANGED <<session, repository>>
  /\ UNCHANGED <<command, logger, circuits, loading>>

\* aggregateResults returns and logger.status('complete', ...) throws
LoggerThrowsOnComplete ==
  /\ pc = "loop"
  /\ ~(i < config.runs)
  /\ ~AggregateThrows(allResults)
  /\ error' = LoggerError
  /\ trace' = Append(trace, Ev("throw", "logger", i))
  /\ pc' = "catch"
  /\ UNCHANGED <<config, i, env, now, mem, frame, stages, sizes, allResults, profiler,
                 completion, finalResult, outcome>>
  /\ UNCHANGED <<session, repository>>
  /\ UNCHANGED <<command, logger, circuits, loading>>

\* logger.status('error', ...) throws inside the catch block: its error is the
\* one the block completes with
LoggerThrowsInCatch ==
  /\ pc = "catch"
  /\ error' = LoggerError
  /\ trace' = Append(trace, Ev("throw", "logger", i))
  /\ completion' = "throw"
  /\ pc' = "finally"
  /\ UNCHANGED <<config, i, env, now, mem, frame, stages, sizes, allResults, profiler,
                 finalResult, outcome>>
  /\ UNCHANGED <<session, repository>>
  /\ UNCHANGED <<command, logger, circuits, loading>>

NextLogger ==
  \/ Next
  \/ LoggerThrowsAtRunStart
  \/ LoggerThrowsAfterStage
  \/ LoggerThrowsAfterInputs
  \/ LoggerThrowsOnComplete
  \/ LoggerThrowsInCatch

SpecLogger == Init /\ [][NextLogger]_vars

\* ------------------------------------------------------- A second session
\* executeBenchmark is called again on the same orchestrator once the call
\* before has returned its result; only runs = 1 is followed into another
\* session. The clock, the heap, the profiler and the repository are left as
\* the session before left them; the log of calls starts anew.
MaxSessions == 2

ExecuteBenchmarkAgain ==
  /\ pc = "done"
  /\ outcome = "returned"
  /\ session.n < MaxSessions
  /\ config.runs = 1
  /\ session' = [n |-> session.n + 1,
                 previous |-> [outcome |-> outcome, finalResult |-> finalResult, env |-> env]]
  /\ trace' = <<>>
  /\ pc' = "start"
  /\ UNCHANGED <<config, i, env, now, mem, frame, stages, sizes, allResults, profiler,
                 completion, finalResult, error, outcome, repository>>
  /\ UNCHANGED <<command, logger, circuits, loading>>

NextSessions == Next \/ ExecuteBenchmarkAgain

SpecSessions == Init /\ [][NextSessions]_vars

\* executeBenchmark is called again after a call that rejected: its finally
\* block has run cleanup, whatever the stage that failed (runs = 1 only, as
\* for the sessions that returned)
ExecuteBenchmarkAfterFailure ==
  /\ pc = "done"
  /\ outcome = "rejected"
  /\ session.n < MaxSessions
  /\ config.runs = 1
  /\ session' = [n |-> session.n + 1,
                 previous |-> [outcome |-> outcome, finalResult |-> NoResult, env |-> NoEnv]]
  /\ trace' = <<>>
  /\ pc' = "start"
  /\ UNCHANGED <<config, i, env, now, mem, frame, stages, sizes, allResults, profiler,
                 completion, finalResult, error, outcome, repository>>
  /\ UNCHANGED <<command, logger, circuits, loading>>

NextRestarts == NextSessions \/ ExecuteBenchmarkAfterFailure

SpecRestarts == Init /\ [][NextRestarts]_vars

\* --------------------------------------------- Other users of the profiler
\* the profiler is shared: before the session, anyone may call startObserving
StartObservingCall ==
  /\ pc = "start"
  /\ session.n = 1
  /\ profiler' = StartObserving(profiler)
  /\ UNCHANGED <<config, pc, i, env, now, mem, frame, stages, sizes, allResults,
                 completion, finalResult, error, outcome, trace, repository, session>>
  /\ UNCHANGED <<command, logger, circuits, loading>>

\* ... and stopObserving
StopObservingCall ==
  /\ pc = "start"
  /\ session.n = 1
  /\ profiler' = StopObserving(profiler)
  /\ UNCHANGED <<config, pc, i, env, now, mem, frame, stages, sizes, allResults,
                 completion, finalResult, error, outcome, trace, repository, session>>
  /\ UNCHANGED <<command, logger, circuits, loading>>

NextProfiler == Next \/ StartObservingCall \/ StopObservingCall

SpecProfiler == Init /\ [][NextProfiler]_vars

\* ------------------------------------------------------- The CLI command
\* BenchmarkCommand.execute up to its await: the logger is set up, the banner
\* and the configuration are printed, executeBenchmark is called
CommandExecute ==
  /\ command.state = "idle"
  /\ pc = "start"
  /\ session.n = 1
  /\ logger' = Log(Log(setVerbose(logger, config.verbose), "visual"), "info")
  /\ command' = [command EXCEPT !.state = "awaiting"]
  /\ UNCHANGED <<config, pc, i, env, now, mem, frame, stages, sizes, allResults, profiler,
                 completion, finalResult, error, outcome, trace, repository, session,
                 circuits, loading>>

\* executeBenchmark returned: the result is saved when --output is given, then
\* the summary is displayed; a failing writeFileSync goes to the action's catch
CommandReturn ==
  /\ command.state = "awaiting"
  /\ pc = "done"
  /\ outcome = "returned"
  /\ \E output \in BOOLEAN, writeFails \in BOOLEAN :
       /\ writeFails => output
       /\ IF writeFails
            THEN /\ logger' = handleError(logger, WriteError, config.verbose)
                 /\ command' = [command EXCEPT !.state = "exited", !.exitCode = 1]
            ELSE /\ logger' = Log(Log(IF output THEN Log(logger, "success") ELSE logger,
                                      "visual"), "visual")
                 /\ command' = [state    |-> "finished",
                                exitCode |-> 0,
                                written  |-> IF output THEN toJSON(finalResult) ELSE NoDocument,
                                saved    |-> output,
                                summary  |-> TRUE]
  /\ UNCHANGED <<config, pc, i, env, now, mem, frame, stages, sizes, allResults, profiler,
                 completion, finalResult, error, outcome, trace, repository, session,
                 circuits, loading>>

\* mutant: the catch of the action saves what there is before it exits
CommandCatchSaves ==
  /\ command.state = "awaiting"
  /\ pc = "done"
  /\ outcome = "rejected"
  /\ logger' = handleError(logger, error, config.verbose)
  /\ command' = [command EXCEPT !.state = "exited", !.exitCode = 1, !.saved = TRUE]
  /\ UNCHANGED <<config, pc, i, env, now, mem, frame, stages, sizes, allResults, profiler,
                 completion, finalResult, error, outcome, trace, repository, session,
                 circuits, loading>>

\* executeBenchmark rejected: the catch of the action calls handleError, then
\* process.exit(1)
CommandCatch ==
  /\ command.state = "awaiting"
  /\ pc = "done"
  /\ outcome = "rejected"
  /\ logger' = handleError(logger, error, config.verbose)
  /\ command' = [command EXCEPT !.state = "exited", !.exitCode = 1]
  /\ UNCHANGED <<config, pc, i, env, now, mem, frame, stages, sizes, allResults, profiler,
                 completion, finalResult, error, outcome, trace, repository, session,
                 circuits, loading>>

NextCommand == Next \/ CommandExecute \/ CommandReturn \/ CommandCatch

SpecCommand == Init /\ [][NextCommand]_vars

\* ------------------------------------------------- Serialising any result
\* stage times as performance.now() differences give them: fractions of a ms,
\* here in steps of a tenth of what toJSON rounds to
StageTimes == {Rat(n, 10 * RoundScale) : n \in 0..MaxTicks}

\* the result of one run whose five stages took the given times
ResultOfTimes(times) ==
  SingleRunResult(
    [k \in 1..NumStages |->
       BenchmarkStage(StageNames[k], times[k],
                      [before |-> InitMem, after |-> InitMem,
                       delta  |-> [heapUsed |-> 0, heapTotal |-> 0, external |-> 0, rss |-> 0]],
                      TRUE)],
    1, 1)

\* executeBenchmark has just returned such a result to the waiting command
InitToJSON ==
  /\ config = parseConfiguration([runs |-> <<"1">>, verbose |-> FALSE])
  /\ pc = "done"
  /\ i = 1
  /\ env = NoEnv
  /\ now = 0
  /\ mem = InitMem
  /\ frame = NoFrame
  /\ stages = <<>>
  /\ sizes = NoSizes
  /\ \E times \in [1..NumStages -> StageTimes] :
       /\ finalResult = ResultOfTimes(times)
       /\ allResults = <<ResultOfTimes(times)>>
  /\ profiler = [observer |-> FALSE, isObserving |-> FALSE]
  /\ completion = "return"
  /\ error = NoError
  /\ outcome = "returned"
  /\ trace = <<>>
  /\ repository = NoRepository
  /\ session = [n |-> 1, previous |-> NoSession]
  /\ command = [NoCommand EXCEPT !.state = "awaiting"]
  /\ logger = NewLogger
  /\ circuits = NoCircuits
  /\ loading = NoLoading

NextToJSON == CommandReturn

SpecToJSON == InitToJSON /\ [][NextToJSON]_vars

\* ----------------------------------------------------- Loading a circuit
InitCircuit ==
  /\ Init
  /\ config = parseConfiguration([runs |-> <<"1">>, verbose |-> FALSE])

\* the circuit to load and the directory are fixed
ChooseCircuit ==
  /\ circuits = NoCircuits
  /\ loading.status = "none"
  /\ circuits' \in CircuitDirs
  /\ UNCHANGED <<config, pc, i, env, now, mem, frame, stages, sizes, allResults, profiler,
                 completion, finalResult, error, outcome, trace, repository, session,
                 command, logger, loading>>

\* loadCircuit up to its second await: exists has resolved
CircuitExists ==
  /\ circuits # NoCircuits
  /\ loading.status = "none"
  /\ loading' = IF RepositoryExists(circuits)
                  THEN [loading EXCEPT !.status = "loading"]
                  ELSE [loading EXCEPT !.status = "rejected",
                                       !.error = ServiceCatch(CircuitNotFoundError)]
  /\ UNCHANGED <<config, pc, i, env, now, mem, frame, stages, sizes, allResults, profiler,
                 completion, finalResult, error, outcome, trace, repository, session,
                 command, logger, circuits>>

\* the file is deleted while loadCircuit is between exists and load
CircuitVanishes ==
  /\ loading.status = "loading"
  /\ ~loading.loadCalled
  /\ circuits.files # {}
  /\ circuits' = [circuits EXCEPT !.files = {}]
  /\ UNCHANGED <<config, pc, i, env, now, mem, frame, stages, sizes, allResults, profiler,
                 completion, finalResult, error, outcome, trace, repository, session,
                 command, logger, loading>>

\* repository.load has settled, and with it loadCircuit
CircuitLoad ==
  /\ loading.status = "loading"
  /\ LET thrown == RepositoryLoad(circuits)
     IN  loading' = IF thrown = NoError
                      THEN [status |-> "resolved", error |-> NoError, loadCalled |-> TRUE]
                      ELSE [status |-> "rejected", error |-> ServiceCatch(thrown),
                            loadCalled |-> TRUE]
  /\ UNCHANGED <<config, pc, i, env, now, mem, frame, stages, sizes, allResults, profiler,
                 completion, finalResult, error, outcome, trace, repository, session,
                 command, logger, circuits>>

NextCircuit == ChooseCircuit \/ CircuitExists \/ CircuitVanishes \/ CircuitLoad

SpecCircuit == InitCircuit /\ [][NextCircuit]_vars

\* ================================================================= claims
PipelineOrder ==
  <<"circuit-load", "backend-init", "witness-generate", "proof-generate", "proof-verify">>

PipelineOps ==
  <<"loadCircuit", "initialize", "generateWitness", "generateProof", "verifyProof">>

Returned == outcome = "returned"

Rejected == outcome = "rejected"

\* positions of the trace where the operation of some stage threw
StageThrows == {j \in 1..Len(trace) : trace[j].ev = "throw" /\ \E k \in 1..5 : trace[j].op = PipelineOps[k]}

StageOf(op) == CHOOSE k \in 1..5 : PipelineOps[k] = op

VerifiedFalse == \E j \in 1..Len(trace) : trace[j].ev = "false"

ReleaseCalls == Cardinality({j \in 1..Len(trace) : trace[j] = Ev("call", "cleanup", trace[j].run)})

ReleaseFailed == \E j \in 1..Len(trace) : trace[j].ev = "throw" /\ trace[j].op = "cleanup"

\* per-run sums, read off allResults
SumOver(f(_), n) == RatSum([r \in 1..n |-> f(r)])

\* C1: a returned BenchmarkResult has exactly the 5 stages circuit-load,
\* backend-init, witness-generate, proof-generate, proof-verify in this order,
\* and in every run the operation of stage k+1 is called only after the
\* operation of stage k of that run has returned.
C1_FiveStagesInOrder ==
  /\ Returned =>
       /\ Len(finalResult.stages) = 5
       /\ \A j \in 1..5 : finalResult.stages[j].name = PipelineOrder[j]
  /\ \A b \in 1..Len(trace) : \A k \in 2..5 :
       (trace[b].ev = "call" /\ trace[b].op = PipelineOps[k]) =>
          \E a \in 1..(b - 1) : trace[a] = Ev("return", PipelineOps[k - 1], trace[b].run)

C1_Witness ==
  /\ Returned
  /\ config.runs = 2
  /\ Len(finalResult.stages) = 5

C3_UnverifiedNeverReturned ==
  /\ VerifiedFalse => (~Returned /\ finalResult = NoResult /\ (pc = "done" => Rejected))
  /\ Returned =>
       \A r \in 0..(config.runs - 1) :
         \E j \in 1..Len(trace) : trace[j] = Ev("return", "verifyProof", r)

C3_Witness ==
  /\ pc = "done"
  /\ VerifiedFalse
  /\ Rejected
  /\ Len(allResults) = 1

\* C4 (as claimed): when verifyProof resolves to false the session rejects with a
\* ProofVerificationError that exposes its kind code.
C4_Claimed ==
  (VerifiedFalse /\ Rejected) =>
     (error.name = "ProofVerificationError" /\ error.code = "PROOF_SYSTEM_ERROR")

\* C5: the repository's cleanup is called exactly once per session, whatever
\* path the session took, and never more than once.
C5_CleanupExactlyOnce ==
  /\ ReleaseCalls <= 1
  /\ pc = "done" => ReleaseCalls = 1
  /\ pc \in {"start", "loop", "await", "inputs", "sleep", "catch", "finally"} => ReleaseCalls = 0

C5_Witness ==
  /\ pc = "done"
  /\ Rejected
  /\ error = AggregateTypeError
  /\ ReleaseCalls = 1

\* C6: the step in which the repository's cleanup fails leaves the session's
\* completion as it was: a returned result stays the result, a thrown error
\* stays the error.
C6_CleanupFailureKeepsOutcome ==
  [][(pc = "cleanup" /\ trace'[Len(trace')].ev = "throw") =>
       /\ outcome' = (IF completion = "return" THEN "returned" ELSE "rejected")
       /\ finalResult' = finalResult
       /\ error' = error
       /\ completion' = completion]_vars

C6_Witness ==
  /\ pc = "done"
  /\ ReleaseFailed
  /\ Returned
  /\ finalResult = aggregateResults(allResults)
  /\ config.runs = 2

\* C7: totals.timeMs of a returned result is the sum of the timeMs of its stages.
C7_TotalTimeIsStageSum ==
  Returned =>
    RatEq(finalResult.totals.timeMs,
          RatSum([j \in 1..Len(finalResult.stages) |-> finalResult.stages[j].timeMs]))

C7_Witness ==
  /\ Returned
  /\ config.runs = 2
  /\ ~RatEq(allResults[1].totals.timeMs, allResults[2].totals.timeMs)

RunPeak(r) ==
  RatMaxSeq([j \in 1..Len(allResults[r].stages) |->
               RatInt(allResults[r].stages[j].memoryUsage.after.heapUsed)])

\* C8 (as claimed): totals.memoryPeak of a returned result is the maximum
\* post-stage heapUsed over that result's own stages.
C8_Claimed ==
  Returned =>
    RatEq(finalResult.totals.memoryPeak,
          RatMaxSeq([j \in 1..Len(finalResult.stages) |->
                       RatInt(finalResult.stages[j].memoryUsage.after.heapUsed)]))

\* C8 (amended): totals.memoryPeak of a returned result is the mean, over the
\* runs, of each run's maximum post-stage heapUsed; with one run this is the
\* maximum over the result's own stages.
C8_PeakIsMeanOfRunMaxima ==
  Returned =>
    /\ RatEq(finalResult.totals.memoryPeak,
             RatDivInt(SumOver(RunPeak, Len(allResults)), Len(allResults)))
    /\ config.runs = 1 =>
         RatEq(finalResult.totals.memoryPeak,
               RatMaxSeq([j \in 1..Len(finalResult.stages) |->
                            RatInt(finalResult.stages[j].memoryUsage.after.heapUsed)]))

C8_Witness ==
  /\ Returned
  /\ config.runs = 2
  /\ ~RatEq(RunPeak(1), RunPeak(2))

\* C9: with more than one run, the timeMs of stage index idx of the aggregate is
\* the arithmetic mean of the timeMs of stage idx over the runs; when every run
\* measured the same time t for it, it is t.
C9_StageTimeIsMean ==
  (Returned /\ config.runs > 1) =>
    \A idx \in 1..5 :
      LET t(r) == allResults[r].stages[idx].timeMs
          n    == Len(allResults)
      IN  /\ RatEq(finalResult.stages[idx].timeMs, RatDivInt(SumOver(t, n), n))
          /\ (\A r \in 1..n : RatEq(t(r), t(1))) => RatEq(finalResult.stages[idx].timeMs, t(1))

C9_Witness ==
  /\ Returned
  /\ config.runs = 2
  /\ ~RatEq(allResults[1].stages[4].timeMs, allResults[2].stages[4].timeMs)
  /\ ~RatEq(finalResult.stages[4].timeMs, allResults[1].stages[4].timeMs)

\* C10: with more than one run, totals.timeMs and totals.memoryPeak of the
\* aggregate are the arithmetic means of the runs' totals.timeMs and
\* totals.memoryPeak.
C10_TotalsAreMeans ==
  (Returned /\ config.runs > 1) =>
    LET n     == Len(allResults)
        tm(r) == allResults[r].totals.timeMs
        pk(r) == allResults[r].totals.memoryPeak
    IN  /\ n = config.runs
        /\ RatEq(finalResult.totals.timeMs, RatDivInt(SumOver(tm, n), n))
        /\ RatEq(finalResult.totals.memoryPeak, RatDivInt(SumOver(pk, n), n))

C10_Witness ==
  /\ Returned
  /\ config.runs = 2
  /\ ~RatEq(allResults[1].totals.memoryPeak, allResults[2].totals.memoryPeak)
  /\ ~RatEq(allResults[1].totals.timeMs, allResults[2].totals.timeMs)
  /\ ~RatEq(finalResult.totals.memoryPeak, allResults[1].totals.memoryPeak)


\* C11: with more than one run, proofSize and witnessSize of the aggregate are
\* those of the first run's result, whatever the later runs produced.
C11_SizesFromFirstRun ==
  (Returned /\ config.runs > 1) =>
    /\ finalResult.totals.proofSize = allResults[1].totals.proofSize
    /\ finalResult.totals.witnessSize = allResults[1].totals.witnessSize

C11_Witness ==
  /\ Returned
  /\ config.runs = 2
  /\ allResults[2].totals.proofSize # allResults[1].totals.proofSize
  /\ allResults[2].totals.witnessSize # allResults[1].totals.witnessSize
  /\ finalResult.totals.proofSize = allResults[1].totals.proofSize

RunsExecuted ==
  Cardinality({j \in 1..Len(trace) : trace[j].ev = "return" /\ trace[j].op = "verifyProof"})

\* C12: metadata.runs of a returned result is the number of runs executed in
\* the session, which is config.runs.
C12_MetadataRuns ==
  Returned =>
    /\ finalResult.metadata.runs = RunsExecuted
    /\ finalResult.metadata.runs = config.runs

C12_Witness ==
  /\ Returned
  /\ config.runs = 2
  /\ RunsExecuted = 2
  /\ finalResult.metadata.runs = 2


\* positions of the trace where a run failed: an operation threw, or verifyProof
\* resolved to false
RunFailures ==
  {j \in 1..Len(trace) : trace[j].ev \in {"throw", "false"} /\ trace[j].op # "cleanup"}

\* C13: once a run has failed, nothing but the cleanup is invoked any more: no
\* later stage of that run, no retry, no further run, no pause, and no result
\* is aggregated; the session is on its way to rejection.
C13_FailureAbortsSession ==
  \A a \in RunFailures :
    /\ \A b \in (a + 1)..Len(trace) : trace[b].op = "cleanup"
    /\ pc \in {"catch", "finally", "cleanup", "done"}
    /\ completion # "return"
    /\ finalResult = NoResult
    /\ Len(allResults) = trace[a].run
    /\ pc = "done" => Rejected

C13_Witness ==
  /\ pc = "done"
  /\ config.runs = 2
  /\ \E a \in RunFailures : trace[a] = Ev("throw", "generateWitness", 0)
  /\ Rejected
  /\ Len(allResults) = 0

\* stage operations called and not yet settled
InFlight ==
  {b \in 1..Len(trace) :
     /\ trace[b].ev = "call"
     /\ \E k \in 1..5 : trace[b].op = PipelineOps[k]
     /\ ~\E a \in (b + 1)..Len(trace) :
           /\ trace[a].op = trace[b].op
           /\ trace[a].run = trace[b].run
           /\ trace[a].ev \in {"return", "throw", "false"}}

\* C14: runs never overlap: loadCircuit of run r+1 is called only after
\* verifyProof of run r has returned and the result of run r has been pushed,
\* and at most one stage operation is in progress at any time.
C14_RunsSequential ==
  /\ \A b \in 1..Len(trace) :
       (trace[b].ev = "call" /\ trace[b].op = "loadCircuit" /\ trace[b].run > 0) =>
          \E a \in 1..(b - 1) : trace[a] = Ev("return", "verifyProof", trace[b].run - 1)
  /\ (Len(trace) > 0 /\ trace[Len(trace)].ev = "call" /\ trace[Len(trace)].op = "loadCircuit") =>
        Len(allResults) = trace[Len(trace)].run
  /\ Cardinality(InFlight) <= 1

C14_Witness ==
  /\ config.runs = 2
  /\ Len(trace) > 0
  /\ trace[Len(trace)] = Ev("call", "loadCircuit", 1)
  /\ Len(allResults) = 1
  /\ Cardinality(InFlight) = 1

Sleeps == {b \in 1..Len(trace) : trace[b].ev = "sleep"}

\* C15: a session of N successful runs pauses exactly N-1 times; every pause
\* comes right after verifyProof of a run that is not the last and right before
\* loadCircuit of the next run; a session of one run never pauses.
C15_PauseBetweenRuns ==
  /\ Returned => Cardinality(Sleeps) = config.runs - 1
  /\ config.runs = 1 => Sleeps = {}
  /\ \A b \in Sleeps :
       /\ b > 1
       /\ trace[b - 1] = Ev("return", "verifyProof", trace[b].run)
       /\ trace[b].run + 1 < config.runs
       /\ b < Len(trace) => trace[b + 1] = Ev("call", "loadCircuit", trace[b].run + 1)
  /\ \A b \in 1..Len(trace) :
       (trace[b].ev = "call" /\ trace[b].op = "loadCircuit" /\ trace[b].run > 0) =>
          trace[b - 1] = Ev("sleep", "sleep", trace[b].run - 1)

C15_Witness ==
  /\ Returned
  /\ config.runs = 2
  /\ Cardinality(Sleeps) = 1


\* C16 (as claimed): the error a failed stage makes executeBenchmark reject with
\* still carries the collaborator's original error as its cause, so that the
\* original kind can be recovered from it.
C16_Claimed ==
  \A j \in StageThrows :
    Rejected => (error.cause # "none" \/ error.code # "none")


\* positions of the trace where a collaborator (not the logger) failed a run
CollaboratorFailures == {j \in RunFailures : trace[j].op # "logger"}

\* C17 (as claimed): a logger call that throws does not change how the session
\* ends: with collaborators that all succeed a result is returned, and after a
\* failed stage the error of that stage is the one the session rejects with.
C17_Claimed ==
  pc = "done" =>
    /\ (CollaboratorFailures = {} /\ config.runs >= 1) => Returned
    /\ \A j \in StageThrows :
         Rejected /\ error.stage = PipelineOrder[StageOf(trace[j].op)]


\* what the orchestrator does next, given the last event of the trace
ExpectedStep(prev, runs) ==
  IF prev.ev = "sleep" THEN [ev |-> "call", op |-> "loadCircuit"]
  ELSE IF prev.ev \in {"throw", "false"} THEN [ev |-> "call", op |-> "cleanup"]
  ELSE IF prev.op = "loadCircuit" THEN [ev |-> "call", op |-> "getTestInputs"]
  ELSE IF prev.op = "getTestInputs" THEN [ev |-> "call", op |-> "initialize"]
  ELSE IF prev.op = "initialize" THEN [ev |-> "call", op |-> "generateWitness"]
  ELSE IF prev.op = "generateWitness" THEN [ev |-> "call", op |-> "generateProof"]
  ELSE IF prev.op = "generateProof" THEN [ev |-> "call", op |-> "verifyProof"]
  ELSE IF prev.run + 1 < runs THEN [ev |-> "sleep", op |-> "sleep"]
  ELSE [ev |-> "call", op |-> "cleanup"]

\* C18: observation mode does not alter propagation.  For verbose and for
\* non-verbose sessions alike, the collaborator calls, the outcome and the
\* failing stage are determined by config.runs and by what the collaborators
\* answered: every call follows from the previous answer, the session returns
\* exactly when no run failed, and it rejects with the failure of the run.
C18_PropagationIgnoresVerbose ==
  /\ \A b \in 1..Len(trace) :
       trace[b].ev \in {"call", "sleep"} =>
         LET step == [ev |-> trace[b].ev, op |-> trace[b].op] IN
           IF b = 1
             THEN step = [ev |-> "call", op |-> IF config.runs >= 1 THEN "loadCircuit" ELSE "cleanup"]
             ELSE trace[b - 1].ev # "call" /\ step = ExpectedStep(trace[b - 1], config.runs)
  /\ pc = "done" =>
       /\ Returned <=> (RunFailures = {} /\ config.runs >= 1)
       /\ \A a \in RunFailures :
            /\ Rejected
            /\ trace[a].ev = "false" => error.message = "Proof verification failed"
            /\ (trace[a].ev = "throw" /\ trace[a].op = "getTestInputs") => error.stage = "none"
            /\ a \in StageThrows => error.stage = PipelineOrder[StageOf(trace[a].op)]

C18_Witness ==
  /\ pc = "done"
  /\ config.verbose
  /\ Rejected
  /\ \E a \in StageThrows : trace[a] = Ev("throw", "generateProof", 1)


\* C19 (as claimed): when the repository's generateProof falls back to
\* ProofResult.failed(message, generationTime) with generationTime >= 0, the
\* construction succeeds and the value reports verified = false, isValid =
\* false and carries the message and the generation time.
C19_Claimed ==
  \A j \in 1..Len(trace) :
    trace[j] = Ev("throw", "generateProof", trace[j].run) =>
      LET t == Elapsed(env, 4)
          r == FailedProofResult("Proof generation failed", t)
      IN  /\ t >= 0
          /\ ~FailedProofResultThrows(t)
          /\ r.verified = FALSE
          /\ r.isValid = FALSE
          /\ r.error = "Proof generation failed"
          /\ r.generationTimeMs = t


\* C20: when a session with runs = 1 returns after an earlier session on the
\* same orchestrator returned, and the stubs behaved the same in both, the
\* two BenchmarkResults have identical totals and identical per-stage timings;
\* and whatever the session before left behind (a later clock, a grown heap,
\* a repository nulled by cleanup), the operations of a later session find
\* the repository initialised again.
C20_SessionsIdentical ==
  /\ (/\ session.n > 1
      /\ pc = "done"
      /\ outcome = "returned"
      /\ session.previous.outcome = "returned"
      /\ session.previous.env = env) =>
        LET a == session.previous.finalResult
            b == finalResult
        IN  /\ RatEq(a.totals.timeMs, b.totals.timeMs)
            /\ RatEq(a.totals.memoryPeak, b.totals.memoryPeak)
            /\ a.totals.proofSize = b.totals.proofSize
            /\ a.totals.witnessSize = b.totals.witnessSize
            /\ Len(a.stages) = Len(PipelineOrder)
            /\ Len(b.stages) = Len(PipelineOrder)
            /\ \A k \in 1..Len(PipelineOrder) :
                 /\ a.stages[k].name = b.stages[k].name
                 /\ RatEq(a.stages[k].timeMs, b.stages[k].timeMs)
  /\ (session.n > 1 /\ pc = "await") =>
        /\ frame.k = 3 => repository.noir
        /\ frame.k \in {4, 5} => repository.backend

\* a second session has returned with the stubs of the first, after a first
\* session whose cleanup nulled the repository, on a clock that kept running
C20_Witness ==
  /\ session.n = 2
  /\ pc = "done"
  /\ outcome = "returned"
  /\ session.previous.outcome = "returned"
  /\ session.previous.env = env
  /\ config.runs = 1
  /\ ~repository.noir
  /\ now > 15 * env.slow
  /\ Len(finalResult.stages) = 5


\* C21: when the operation of a stage completes, the stage recorded for it has
\* timeMs = clock after the operation minus clock at the stage's start, the
\* memory snapshot from before the operation, the snapshot from after it, and
\* their difference field by field (heapUsed, heapTotal, external, rss); the
\* value the operation returned (the witness, the proof) is what the run keeps.
C21_StageMeasuresOperation ==
  [][(pc = "await" /\ Len(stages') = Len(stages) + 1) =>
       LET st == stages'[Len(stages')]
           mu == st.memoryUsage
       IN  /\ st.name = PipelineOrder[frame.k]
           /\ st.timeMs = [n |-> now' - now, d |-> 1]
           /\ mu.before = mem
           /\ mu.after = mem'
           /\ mu.delta.heapUsed = mem'.heapUsed - mem.heapUsed
           /\ mu.delta.heapTotal = mem'.heapTotal - mem.heapTotal
           /\ mu.delta.external = mem'.external - mem.external
           /\ mu.delta.rss = mem'.rss - mem.rss
           /\ frame.k = 3 => sizes'.witness = WitnessSize(env)
           /\ frame.k = 4 => sizes'.proof = ProofSize(env)]_vars

\* a stage was recorded whose operation took time, freed heap and grew rss
C21_Witness ==
  /\ Len(stages) > 1
  /\ \E k \in 1..Len(stages) :
       /\ stages[k].timeMs.n > 1
       /\ stages[k].memoryUsage.delta.heapUsed < 0
  /\ \E k \in 1..Len(stages) :
       /\ stages[k].memoryUsage.delta.rss > 0
       /\ stages[k].memoryUsage.delta.heapTotal > 0


InitializeCalls(r) ==
  {j \in 1..Len(trace) : trace[j] = Ev("call", "initialize", r)}

ReleasePositions ==
  {j \in 1..Len(trace) : trace[j].ev = "call" /\ trace[j].op = "cleanup"}

\* C22: in a session that returned after N runs, initialize was called exactly
\* once in each of the N runs (after that run's loadCircuit, before its
\* generateWitness) and N times in all; release is called at most once, nothing
\* but its own settling follows it in the session, and in a returned session
\* it comes after verifyProof of the last run has returned.
C22_InitPerRunReleaseOnce ==
  /\ Returned =>
       /\ \A r \in 0..(config.runs - 1) :
            /\ Cardinality(InitializeCalls(r)) = 1
            /\ \A j \in InitializeCalls(r) :
                 /\ \E a \in 1..(j - 1) : trace[a] = Ev("return", "loadCircuit", r)
                 /\ \E b \in (j + 1)..Len(trace) : trace[b] = Ev("call", "generateWitness", r)
                 /\ \A b \in 1..(j - 1) : trace[b] # Ev("call", "generateWitness", r)
       /\ Cardinality({j \in 1..Len(trace) :
                         trace[j].ev = "call" /\ trace[j].op = "initialize"}) = config.runs
       /\ Cardinality(ReleasePositions) = 1
       /\ \A j \in ReleasePositions :
            \E a \in 1..(j - 1) : trace[a] = Ev("return", "verifyProof", config.runs - 1)
  /\ Cardinality(ReleasePositions) <= 1
  /\ \A j \in ReleasePositions :
       \A b \in (j + 1)..Len(trace) : trace[b].op = "cleanup" /\ trace[b].ev # "call"

\* two runs succeeded: two initialize calls, one release, at the very end
C22_Witness ==
  /\ pc = "done"
  /\ Returned
  /\ config.runs = 2
  /\ Cardinality(InitializeCalls(0)) = 1
  /\ Cardinality(InitializeCalls(1)) = 1
  /\ Cardinality(ReleasePositions) = 1
  /\ trace[Len(trace)].op = "cleanup"
  /\ ~repository.backend


\* C23 (as claimed): getTestInputs runs inside the instrumented load stage: when
\* it fails, the session's error is the failure of the stage circuit-load
\* (naming the stage and carrying its elapsed time), no circuit-load stage has
\* been recorded for the run, and initialize of that run is never called.
C23_Claimed ==
  \A j \in 1..Len(trace) :
    trace[j] = Ev("throw", "getTestInputs", trace[j].run) =>
      /\ error.stage = PipelineOrder[1]
      /\ error.elapsed = Elapsed(env, 1)
      /\ Len(stages) = 0
      /\ \A b \in 1..Len(trace) : trace[b] # Ev("call", "initialize", trace[j].run)


\* C24: a returned BenchmarkResult has metadata.runs >= 1; when config.runs is
\* not at least 1 (0, a negative count, NaN) no stage operation, no
\* getTestInputs and no pause is ever invoked, the session never returns, and
\* once settled it has rejected after exactly one call of cleanup.
C24_NoResultWithoutRuns ==
  /\ Returned => finalResult.metadata.runs >= 1
  /\ ~(config.runs >= 1) =>
       /\ \A j \in 1..Len(trace) : trace[j].op = "cleanup"
       /\ Len(stages) = 0
       /\ Len(allResults) = 0
       /\ ~Returned
       /\ completion # "return"
       /\ pc = "done" =>
            /\ Rejected
            /\ Cardinality({j \in 1..Len(trace) : trace[j].ev = "call"}) = 1

\* a session whose --runs text was not a number has settled
C24_Witness ==
  /\ pc = "done"
  /\ config.runs = ParseInt(<<"x">>)
  /\ config.runs # ParseInt(<<"-", "1">>)
  /\ Rejected
  /\ trace = <<Ev("call", "cleanup", 0), Ev("return", "cleanup", 0)>>


\* C27: while the command waits for executeBenchmark nothing is saved or
\* summarised; when executeBenchmark rejected, the command has exited with
\* code 1, saved no file, displayed no summary and printed the error at level
\* error; a file is saved only once executeBenchmark has returned, and it
\* holds the returned result.
C27_RejectionYieldsNoResult ==
  /\ command.state \in {"idle", "awaiting"} =>
       ~command.saved /\ ~command.summary /\ command.written = NoDocument
  /\ (command.state \in {"finished", "exited"} /\ outcome = "rejected") =>
       /\ command.state = "exited"
       /\ command.exitCode = 1
       /\ ~command.saved
       /\ command.written = NoDocument
       /\ ~command.summary
       /\ \E j \in 1..Len(logger.console) : logger.console[j] = "error"
  /\ command.saved =>
       /\ pc = "done"
       /\ outcome = "returned"
       /\ Len(command.written.stages) = Len(finalResult.stages)
       /\ command.written.totals = finalResult.totals

\* a session failed in a stage and the command has exited
C27_Witness ==
  /\ command.state = "exited"
  /\ outcome = "rejected"
  /\ error.stage = "proof-generate"
  /\ command.exitCode = 1
  /\ ~command.saved


\* C30 (as claimed): for the logger the application constructs, once
\* setVerbose(true) has been called and silent is unset, debug prints its
\* message; so when the command has handled a rejection under --verbose, the
\* cause (or the stack) of the error has been printed at level debug.
C30_Claimed ==
  /\ (logger.verbose /\ ~logger.silent) => Log(logger, "debug").console # logger.console
  /\ (command.state = "exited" /\ config.verbose /\ ~logger.silent) =>
       \E j \in 1..Len(logger.console) : logger.console[j] = "debug"


\* |a - b| <= c for fractions
RatWithin(a, b, c) ==
  /\ ~RatLt(RatAdd(b, c), a)
  /\ ~RatLt(RatAdd(a, c), b)

\* C25 (as claimed): in the saved document every stages[k].timeMs is a
\* multiple of 0.01 within 0.005 of the stage's time, and totals.timeMs
\* equals the sum of the document's stages[k].timeMs within 0.01.
C25_Claimed ==
  command.saved =>
    LET doc == command.written
    IN  /\ \A k \in 1..Len(doc.stages) :
             /\ doc.stages[k].timeMs.d = 100
             /\ RatWithin(doc.stages[k].timeMs, finalResult.stages[k].timeMs, Rat(1, 200))
        /\ RatWithin(doc.totals.timeMs,
                     RatSum([k \in 1..Len(doc.stages) |-> doc.stages[k].timeMs]),
                     Rat(1, 100))


C28_NeverUninitialized ==
  /\ \A b \in 1..Len(trace) :
       (trace[b].ev = "call" /\ trace[b].op \in {"generateWitness", "generateProof", "verifyProof"}) =>
          /\ \E a \in 1..(b - 1) : trace[a] = Ev("return", "initialize", trace[b].run)
          /\ \A a \in 1..(b - 1) : trace[a].op # "cleanup"
  /\ (pc = "await" /\ frame.k = 3) => repository.noir
  /\ (pc = "await" /\ frame.k \in {4, 5}) => repository.backend
  /\ pc = "done" => (~repository.noir /\ ~repository.backend)

\* verifyProof is pending in a session that follows one that rejected
C28_Witness ==
  /\ session.n = 2
  /\ session.previous.outcome = "rejected"
  /\ pc = "await"
  /\ frame.k = 5
  /\ repository.backend
  /\ repository.noir


\* C29: whatever calls of startObserving and stopObserving came before,
\* isObserving is true exactly when an observer is attached; startObserving
\* changes nothing while observing and stopObserving changes nothing while
\* not observing; and once executeBenchmark has settled, returned or
\* rejected, verbose or not, the profiler is not observing.
C29_ObservingIffObserver ==
  /\ profiler.isObserving <=> profiler.observer
  /\ profiler.isObserving => StartObserving(profiler) = profiler
  /\ ~profiler.isObserving => StopObserving(profiler) = profiler
  /\ StopObserving(StartObserving(profiler)) = [observer |-> FALSE, isObserving |-> FALSE]
  /\ pc = "done" => (~profiler.isObserving /\ ~profiler.observer)

\* a session that is not verbose is about to stop an observer attached before it
C29_Witness ==
  /\ ~config.verbose
  /\ pc = "finally"
  /\ profiler.isObserving
  /\ profiler.observer
  /\ completion = "throw"

====
